---------------------------- MODULE Spec2Model ----------------------------
(***************************************************************************)
(* Secret Santa API (src/server.js, the family_code variant; the older     *)
(* single-scope variant src/unnamed/part_000 is the same program with one  *)
(* scope).  The model covers the HTTP handlers that touch participants,    *)
(* assignments and the generation flag, the pg connection pool they share  *)
(* and the PostgreSQL tables behind it.                                    *)
(*                                                                         *)
(* Store semantics assumed of the collaborators (pg / PostgreSQL):         *)
(*  - pool.query runs one statement on the most recently released idle     *)
(*    client (pg-pool keeps idle clients in a LIFO list) and releases it;  *)
(*  - a statement outside a transaction commits at once; inside BEGIN ..   *)
(*    COMMIT its effect is private to the connection until COMMIT;         *)
(*  - BEGIN inside an open transaction is a warning, not an error;         *)
(*  - an error inside a transaction aborts it: every later statement on    *)
(*    that connection fails until ROLLBACK;                                *)
(*  - pool.query releases its client with the error when the statement     *)
(*    fails, and the pool then closes that client (the server rolls back   *)
(*    whatever transaction it had open);                                   *)
(*  - client.release() returns the client as it is: it does not end a      *)
(*    transaction;                                                         *)
(*  - an idle client is closed after the pool's idle timeout, which        *)
(*    rolls back whatever transaction it still had open;                   *)
(*  - transactions run READ COMMITTED: each statement sees what is         *)
(*    committed when it starts and its own transaction's changes; a        *)
(*    DELETE waits for a transaction that has deleted (or updated) one of  *)
(*    its rows and then skips the rows that are gone; an INSERT waits for  *)
(*    a transaction that holds a conflicting key and fails with 23505 if   *)
(*    that one commits.                                                    *)
(* Node runs the code between two awaits without interruption; handlers    *)
(* interleave at their awaits.                                             *)
(* Tables carry the family_code column the queries use; uniqueness is as   *)
(* initDB declares it (users.name, assignments.giver) and settings is      *)
(* unique on (key, family_code) as the ON CONFLICT clause requires.        *)
(***************************************************************************)
EXTENDS Integers, Sequences, FiniteSets, TLC

\* ------------------------------------------------------------------ bounds
\* family codes that exist
NumScopes == 2
\* requests served in one run
MaxReq == 3
\* the largest family handed to the generator when it is checked on its own
MaxFamily == 4
\* the largest family for which the end of the retry loop is checked
MaxLoopFamily == 3

\* the retry bound of the derangement loop
MaxAttempts == 100

\* names in the order ORDER BY name gives them
NameSeq == <<"alice", "bob", "carol", "dave", "erin", "frank">>
ScopeSeq == <<"fam1", "fam2", "fam3", "fam4">>

\* the names requests are made for
Names == {"alice", "bob", "carol"}
Scopes == {ScopeSeq[i] : i \in 1..NumScopes}
\* request handlers in flight at once, and the clients the pool may open
Procs == {1, 2}
Conns == {1, 2}
\* the handlers used when requests are served one after the other
SeqProcs == {1}

\* a request field that was not sent (req.body.family_code undefined)
Missing == "<missing>"
\* the path segment of GET /api/assignments/status
StatusSeg == "status"
NoName == "<none>"

\* position of a name in ORDER BY name
Rank(n) == CHOOSE i \in 1..Len(NameSeq) : NameSeq[i] = n

VARIABLES
  users,    \* table users: rows (name, family_code)
  assigns,  \* table assignments: rows (giver, receiver, family_code); run names the request that inserted the row
  flags,    \* table settings: the family codes with a row ('assignments_generated', 'true')
  conn,     \* the pool's clients: checked out or idle, the state of their transaction, its pending changes
  idle,     \* the pool's list of idle clients, last released last
  req,      \* the request each handler is serving and where it stands
  nreq,     \* requests received so far
  hist      \* what has happened to each family so far (history, not program state)

vars == <<users, assigns, flags, conn, idle, req, nreq, hist>>
tables == <<users, assigns, flags>>

\* ------------------------------------------------------------------ store

UserRow(n, s) == [name |-> n, scope |-> s]
AssignRow(g, r, s, k) == [giver |-> g, receiver |-> r, scope |-> s, run |-> k]

EmptyOv == [uIns |-> {}, uDel |-> {}, aIns |-> {}, aDel |-> {}, fIns |-> {}, fDel |-> {}]

\* the tables as a statement on connection c sees them
ViewUsers(c) == (users \ conn[c].ov.uDel) \cup conn[c].ov.uIns
ViewAssigns(c) == (assigns \ conn[c].ov.aDel) \cup conn[c].ov.aIns
ViewFlags(c) == (flags \ conn[c].ov.fDel) \cup conn[c].ov.fIns

\* the client pool.query / pool.connect hands out
PoolConn ==
  IF idle # <<>> THEN idle[Len(idle)]
  ELSE CHOOSE c \in Conns : conn[c].st = "closed" /\ \A d \in Conns : conn[d].st = "closed" => c <= d

CanAcquire == idle # <<>> \/ \E c \in Conns : conn[c].st = "closed"

\* a successful statement on connection c leaves it with pending changes ov:
\* committed at once outside a transaction, kept on the connection inside one
ExecTables(c, ov) ==
  IF conn[c].txn = "none"
  THEN /\ users' = (users \ ov.uDel) \cup ov.uIns
       /\ assigns' = (assigns \ ov.aDel) \cup ov.aIns
       /\ flags' = (flags \ ov.fDel) \cup ov.fIns
  ELSE UNCHANGED tables
ExecConn(c, ov) == [conn[c] EXCEPT !.ov = IF conn[c].txn = "none" THEN EmptyOv ELSE ov]
Exec(c, ov) ==
  /\ ExecTables(c, ov)
  /\ conn' = [conn EXCEPT ![c] = ExecConn(c, ov)]

\* a statement that raises an error on connection c
Fail(c) ==
  /\ conn' = [conn EXCEPT ![c].txn = IF conn[c].txn = "none" THEN "none" ELSE "aborted"]
  /\ UNCHANGED tables

\* deletes that remove nothing
OvDeleteUsersNone(c, rows) == conn[c].ov
OvDeleteFlagsNone(c, rows) == conn[c].ov

OvDeleteAssigns(c, rows) ==
  [conn[c].ov EXCEPT !.aDel = @ \cup (rows \cap assigns), !.aIns = @ \ rows]
OvDeleteUsers(c, rows) ==
  [conn[c].ov EXCEPT !.uDel = @ \cup (rows \cap users), !.uIns = @ \ rows]
OvDeleteFlags(c, rows) ==
  [conn[c].ov EXCEPT !.fDel = @ \cup (rows \cap flags), !.fIns = @ \ rows]
OvInsertUser(c, row) == [conn[c].ov EXCEPT !.uIns = @ \cup {row}, !.uDel = @ \ {row}]
OvInsertAssign(c, row) == [conn[c].ov EXCEPT !.aIns = @ \cup {row}, !.aDel = @ \ {row}]
OvInsertFlag(c, s) == [conn[c].ov EXCEPT !.fIns = @ \cup {s}, !.fDel = @ \ {s}]

\* the pending changes of connection c after a DELETE of rows from a table
OvDelete(table, c, rows) ==
  CASE table = "assignments" -> OvDeleteAssigns(c, rows)
    [] table = "users" -> OvDeleteUsers(c, rows)
    [] table = "settings" -> OvDeleteFlags(c, rows)

\* the rows on which transactions of other connections hold a lock: the rows
\* they have deleted, and the settings rows they have written
LockedAssigns(c) == UNION {conn[d].ov.aDel : d \in Conns \ {c}}
LockedUsers(c) == UNION {conn[d].ov.uDel : d \in Conns \ {c}}
LockedFlags(c) == UNION {conn[d].ov.fDel \cup conn[d].ov.fIns : d \in Conns \ {c}}

\* a table without the unique index on giver: no INSERT ever waits
InsertBlockedNever(c, g) == FALSE

\* an INSERT of a row for giver g on connection c has to wait: another
\* transaction has inserted a row for g, or is deleting the row that conflicts
InsertBlocked(c, g) ==
  \E d \in Conns \ {c} :
    \/ \E a \in conn[d].ov.aIns : a.giver = g
    \/ \E a \in conn[d].ov.aDel \cap ViewAssigns(c) : a.giver = g


\* the pool's next client when none is checked out, whose view the next pool.query reads
SeenUsers == IF CanAcquire THEN ViewUsers(PoolConn) ELSE users
SeenAssigns == IF CanAcquire THEN ViewAssigns(PoolConn) ELSE assigns
SeenFlags == IF CanAcquire THEN ViewFlags(PoolConn) ELSE flags

\* the rows the statements select
ScopeAssignRows(rows, scope) == {a \in rows : a.scope = scope}
ScopeUserRows(rows, scope) == {u \in rows : u.scope = scope}
\* a DELETE that matches the giver column alone
DeleteUserAssignRowsGiverOnly(rows, name, scope) == {a \in rows : a.giver = name /\ a.scope = scope}
\* DELETE FROM assignments WHERE (giver = $1 OR receiver = $1) AND family_code = $2
DeleteUserAssignRows(rows, name, scope) ==
  {a \in rows : (a.giver = name \/ a.receiver = name) /\ a.scope = scope}
\* DELETE FROM users WHERE name = $1 AND family_code = $2
DeleteUserRows(rows, name, scope) == {u \in rows : u.name = name /\ u.scope = scope}
\* a SELECT that matches the receiver column instead
LookupRowsByReceiver(rows, name, scope) == {a \in rows : a.receiver = name /\ a.scope = scope}
\* SELECT receiver FROM assignments WHERE giver = $1 AND family_code = $2
LookupRows(rows, name, scope) == {a \in rows : a.giver = name /\ a.scope = scope}

\* ------------------------------------------------------------------ requests

NoTables == [users |-> {}, assigns |-> {}, flags |-> {}]

IdleReq ==
  [kind |-> "none", pc |-> "idle", scope |-> Missing, name |-> NoName,
   conn |-> 0, givers |-> <<>>, receivers |-> <<>>, attempts |-> 0, i |-> 0,
   code |-> 0, body |-> NoName, id |-> 0, err |-> "none",
   wait |-> FALSE, target |-> {},
   pre |-> NoTables, preV |-> NoTables, mid |-> NoTables]

Respond(r, code, body) == [r EXCEPT !.pc = "done", !.code = code, !.body = body]

\* the registered users the server finds in the database when it starts: the
\* first k names in the first family, the others in the second
InitUsers(k) ==
  {UserRow(NameSeq[i], ScopeSeq[IF i <= k THEN 1 ELSE 2]) : i \in 1..Cardinality(Names)}

InitRest ==
  /\ assigns = {}
  /\ flags = {}
  /\ conn = [c \in Conns |-> [st |-> IF c = 1 THEN "idle" ELSE "closed", txn |-> "none", ov |-> EmptyOv]]
  /\ idle = <<1>>
  /\ req = [p \in Procs |-> IdleReq]
  /\ nreq = 0
  /\ hist = [gen |-> {}, fresh |-> {}, reset |-> {}]

Init ==
  /\ users \in {InitUsers(k) : k \in {2, Cardinality(Names)}}
  /\ InitRest

\* the answer to a request that carries no family code
MissingBody(kind) ==
  IF kind = "add" THEN "Name, password, and family_code required" ELSE "family_code is required"

\* a request arrives for handler p: the handler checks its input first
Begin(p, kind, pc, scope, name) ==
  /\ req[p].pc = "idle"
  /\ nreq < MaxReq
  /\ nreq' = nreq + 1
  /\ LET r == [IdleReq EXCEPT !.kind = kind, !.id = nreq + 1, !.name = name, !.scope = scope,
                              !.pre = [users |-> users, assigns |-> assigns, flags |-> flags],
                              !.preV = [users |-> SeenUsers, assigns |-> SeenAssigns, flags |-> SeenFlags]]
     IN req' = [req EXCEPT ![p] =
          IF scope = Missing
          THEN Respond(r, 400, MissingBody(kind))
          ELSE [r EXCEPT !.pc = pc]]
  /\ UNCHANGED <<users, assigns, flags, conn, idle, hist>>

\* the response has been sent; the handler takes the next request
Finish(p) ==
  /\ req[p].pc = "done"
  /\ req' = [req EXCEPT ![p] = IdleReq]
  /\ UNCHANGED <<users, assigns, flags, conn, idle, nreq, hist>>

\* a client the pool has closed
ClosedConn == [st |-> "closed", txn |-> "none", ov |-> EmptyOv]

\* one statement through pool.query, on the pool's client.  The statement runs
\* (ok), violates a unique constraint (dup) or the store raises another error;
\* the client goes back to the pool after a result and is closed after an error.
\* The handler answers rOk or, from its catch block, rDup / rErr.
PoolQuery(p, ok, dup, ov, rOk, rDup, rErr) ==
  /\ CanAcquire
  /\ UNCHANGED nreq
  /\ LET c == PoolConn
     IN IF ok /\ ~dup /\ conn[c].txn # "aborted"
        THEN /\ ExecTables(c, ov)
             /\ conn' = [conn EXCEPT ![c] = [ExecConn(c, ov) EXCEPT !.st = "idle"]]
             /\ idle' = IF idle # <<>> THEN idle ELSE <<c>>
             /\ req' = [req EXCEPT ![p] = rOk]
        ELSE /\ UNCHANGED tables
             /\ conn' = [conn EXCEPT ![c] = ClosedConn]
             /\ idle' = IF idle # <<>> THEN SubSeq(idle, 1, Len(idle) - 1) ELSE idle
             /\ req' = [req EXCEPT ![p] = IF ok /\ dup THEN rDup ELSE rErr]

ServerError(r) == Respond(r, 500, "Server error")

\* history: the family's participants or rows changed after its last generation
Touched(scope, changed) == [hist EXCEPT !.fresh = IF changed THEN @ \ {scope} ELSE @]

\* a users table without the unique constraint on name
NameTakenNever(rows, name) == FALSE

\* name VARCHAR(255) UNIQUE NOT NULL: the INSERT conflicts with a row of that name
NameTaken(rows, name) == \E u \in rows : u.name = name

\* ---- POST /api/users
StartAddUser(p, name, scope) == Begin(p, "add", "add_insert", scope, name)

\* INSERT INTO users (name, password, family_code); users.name is UNIQUE.
\* The INSERT waits while another transaction is deleting the row of that name.
AddInsert(p) ==
  /\ req[p].pc = "add_insert"
  /\ CanAcquire
  /\ ~NameTaken(LockedUsers(PoolConn) \cap ViewUsers(PoolConn), req[p].name)
  /\ \E ok \in BOOLEAN :
       LET r == req[p]
           dup == NameTaken(ViewUsers(PoolConn), r.name)
       IN /\ PoolQuery(p, ok, dup, OvInsertUser(PoolConn, UserRow(r.name, r.scope)),
                       Respond(r, 200, r.name),
                       Respond(r, 400, "User already exists"),
                       ServerError(r))
          /\ hist' = Touched(r.scope, ok /\ ~dup)

\* ---- DELETE /api/users/:name
StartDeleteUser(p, name, scope) == Begin(p, "delete", "del_assign", scope, name)

\* a DELETE through pool.query.  matching are the rows it finds when it
\* starts; while another transaction holds one of them the statement waits,
\* and it then deletes those of its rows that still exist.
PoolDelete(p, matching, view, locked, table, rOk) ==
  LET r == req[p]
      rows == IF r.wait THEN r.target \cap view ELSE matching
      woken == [r EXCEPT !.wait = FALSE, !.target = {}]
  IN IF rows \cap locked # {}
     THEN /\ ~r.wait
          /\ req' = [req EXCEPT ![p].wait = TRUE, ![p].target = rows]
          /\ UNCHANGED <<users, assigns, flags, conn, idle, nreq, hist>>
     ELSE \E ok \in BOOLEAN :
            /\ PoolQuery(p, ok, FALSE, OvDelete(table, PoolConn, rows),
                         [rOk EXCEPT !.wait = FALSE, !.target = {}], woken, ServerError(woken))
            /\ hist' = Touched(r.scope, ok /\ rows # {})

DelAssign(p) ==
  /\ req[p].pc = "del_assign"
  /\ CanAcquire
  /\ LET r == req[p]
         c == PoolConn
     IN PoolDelete(p, DeleteUserAssignRows(ViewAssigns(c), r.name, r.scope), ViewAssigns(c),
                   LockedAssigns(c), "assignments", [r EXCEPT !.pc = "del_user"])

DelUser(p) ==
  /\ req[p].pc = "del_user"
  /\ CanAcquire
  /\ LET r == req[p]
         c == PoolConn
     IN PoolDelete(p, DeleteUserRows(ViewUsers(c), r.name, r.scope), ViewUsers(c),
                   LockedUsers(c), "users", Respond(r, 200, "User deleted"))

\* ---- transactions on a checked-out client (generate, reset)

\* const client = await pool.connect()
Connect(p, next) ==
  /\ CanAcquire
  /\ LET c == PoolConn
     IN /\ conn' = [conn EXCEPT ![c].st = "busy"]
        /\ idle' = IF idle # <<>> THEN SubSeq(idle, 1, Len(idle) - 1) ELSE idle
        /\ req' = [req EXCEPT ![p].conn = c, ![p].pc = next]
  /\ UNCHANGED <<users, assigns, flags, nreq, hist>>

\* control enters catch (err): the let-bound locals of the try block are gone
Caught(r) ==
  [r EXCEPT !.pc = "rollback", !.err = r.pc, !.givers = <<>>, !.receivers = <<>>,
            !.attempts = 0, !.i = 0, !.wait = FALSE, !.target = {}]

\* a client.query inside try: the statement runs (ok) or the store raises an error;
\* on an aborted transaction it always raises.  An error lands in the catch block.
Stmt(p, ok, ov, r2) ==
  LET c == req[p].conn
  IN /\ IF ok /\ conn[c].txn # "aborted"
        THEN /\ Exec(c, ov)
             /\ req' = [req EXCEPT ![p] = r2]
        ELSE /\ Fail(c)
             /\ req' = [req EXCEPT ![p] = Caught(req[p])]
     /\ UNCHANGED <<idle, nreq, hist>>

\* a DELETE through client.query inside try.  matching are the rows it finds
\* when it starts; while another transaction holds one of them the statement
\* waits, and it then deletes those of its rows that still exist.
TxDelete(p, matching, view, locked, table, r2) ==
  LET c == req[p].conn
      target == IF req[p].wait THEN req[p].target \cap view ELSE matching
  IN IF target \cap locked # {}
     THEN /\ ~req[p].wait
          /\ req' = [req EXCEPT ![p].wait = TRUE, ![p].target = target]
          /\ UNCHANGED <<users, assigns, flags, conn, idle, nreq, hist>>
     ELSE \E ok \in BOOLEAN :
            Stmt(p, ok, OvDelete(table, c, target), [r2 EXCEPT !.wait = FALSE, !.target = {}])

\* await client.query('BEGIN'): opens a transaction; a warning if one is open
TxBegin(p, ok, next) ==
  LET c == req[p].conn
  IN /\ IF ok /\ conn[c].txn # "aborted"
        THEN /\ conn' = [conn EXCEPT ![c].txn = "open"]
             /\ req' = [req EXCEPT ![p].pc = next]
             /\ UNCHANGED tables
        ELSE /\ Fail(c)
             /\ req' = [req EXCEPT ![p] = Caught(req[p])]
     /\ UNCHANGED <<idle, nreq, hist>>

\* await client.query('COMMIT'); res.json(...)
TxCommit(p, ok, body, h2) ==
  LET c == req[p].conn
  IN /\ IF ok /\ conn[c].txn # "aborted"
        THEN /\ users' = ViewUsers(c)
             /\ assigns' = ViewAssigns(c)
             /\ flags' = ViewFlags(c)
             /\ conn' = [conn EXCEPT ![c].txn = "none", ![c].ov = EmptyOv]
             /\ req' = [req EXCEPT ![p].pc = "release", ![p].code = 200, ![p].body = body]
             /\ hist' = h2
        ELSE /\ Fail(c)
             /\ req' = [req EXCEPT ![p] = Caught(req[p])]
             /\ hist' = hist
     /\ UNCHANGED <<idle, nreq>>

\* a ROLLBACK that leaves the transaction as it is
RolledBackKeeps(cn) == cn

\* what ROLLBACK leaves of a client
RolledBack(cn) == [cn EXCEPT !.txn = "none", !.ov = EmptyOv]

\* catch (err) { await client.query('ROLLBACK'); res.status(500)... }
TxRollback(p) ==
  LET c == req[p].conn
  IN /\ req[p].pc = "rollback"
     /\ conn' = [conn EXCEPT ![c] = RolledBack(conn[c])]
     /\ req' = [req EXCEPT ![p].pc = "release", ![p].code = 500, ![p].body = "Server error"]
     /\ UNCHANGED <<users, assigns, flags, idle, nreq, hist>>

\* a release that leaves the client checked out
ReleasedNever(cn) == cn

\* what client.release() makes of a client: idle, its session as it is
Released(cn) == [cn EXCEPT !.st = "idle"]

\* finally { client.release() }
TxRelease(p) ==
  LET c == req[p].conn
  IN /\ req[p].pc = "release"
     /\ conn' = [conn EXCEPT ![c] = Released(conn[c])]
     /\ idle' = Append(idle, c)
     /\ req' = [req EXCEPT ![p].pc = "done", ![p].conn = 0]
     /\ UNCHANGED <<users, assigns, flags, nreq, hist>>

\* the pool closes a client that stayed idle for idleTimeoutMillis, and the
\* server rolls back the transaction it had open.  A clean idle client and a
\* closed one replaced on demand behave alike, so only a client with a
\* transaction is shown; the timeout is long against a request being served,
\* unless the request waits for a lock.
IdleTimeout(c) ==
  /\ conn[c].st = "idle"
  /\ conn[c].txn # "none"
  /\ \A p \in Procs : req[p].pc = "idle" \/ req[p].wait
  /\ conn' = [conn EXCEPT ![c] = RolledBack(conn[c])]
  /\ UNCHANGED <<users, assigns, flags, idle, req, nreq, hist>>

\* ---- POST /api/assignments/generate

\* rows.map(u => u.name) of SELECT name ... ORDER BY name
RECURSIVE SortByName(_)
SortByName(S) ==
  IF S = {} THEN <<>>
  ELSE LET m == CHOOSE x \in S : \A y \in S : Rank(x) <= Rank(y)
       IN <<m>> \o SortByName(S \ {m})

\* a swap that loses the element at i: receivers[i] = receivers[j] alone
SwapOverwrites(r, i, j) == [r EXCEPT ![i] = r[j]]

\* [receivers[i], receivers[j]] = [receivers[j], receivers[i]]
Swap(r, i, j) == [r EXCEPT ![i] = r[j], ![j] = r[i]]

\* every result of the Fisher-Yates pass over positions i, i-1, .., 2 (1-based),
\* j = Math.floor(Math.random() * (i + 1)) ranging over the positions up to i
RECURSIVE FisherYates(_, _)
FisherYates(r, i) ==
  IF i <= 1 THEN {r}
  ELSE UNION {FisherYates(Swap(r, i, j), i - 1) : j \in 1..i}

\* a check that looks at the first position only
ValidFirstOnly(givers, receivers) == givers[1] # receivers[1]

\* the for loop that looks for givers[i] === receivers[i]
Valid(givers, receivers) == \A i \in 1..Len(givers) : givers[i] # receivers[i]

\* a length check that lets every family through
TooFewNever(u) == FALSE

\* if (users.length < 2)
TooFew(u) == Len(u) < 2

StartGenerate(p, scope) == Begin(p, "generate", "gen_connect", scope, NoName)

GenConnect(p) ==
  /\ req[p].pc = "gen_connect"
  /\ Connect(p, "gen_begin")

GenBegin(p) ==
  /\ req[p].pc = "gen_begin"
  /\ \E ok \in BOOLEAN : TxBegin(p, ok, "gen_select")

\* SELECT name FROM users ...; the length check; the copies and the first shuffle
GenSelect(p) ==
  /\ req[p].pc = "gen_select"
  /\ UNCHANGED <<idle, nreq, hist>>
  /\ LET c == req[p].conn
         u == SortByName({x.name : x \in ScopeUserRows(ViewUsers(c), req[p].scope)})
     IN \E ok \in BOOLEAN :
          IF ~ok \/ conn[c].txn = "aborted"
          THEN /\ Fail(c)
               /\ req' = [req EXCEPT ![p] = Caught(req[p])]
          ELSE /\ UNCHANGED <<users, assigns, flags, conn>>
               /\ IF TooFew(u)
                  THEN req' = [req EXCEPT ![p].pc = "release", ![p].code = 400,
                                          ![p].body = "Need at least 2 users"]
                  ELSE \E r \in FisherYates(u, Len(u)) :
                         req' = [req EXCEPT ![p].pc = "gen_loop", ![p].givers = u,
                                            ![p].receivers = r, ![p].attempts = 0]

\* one turn of while (attempts < 100): leave on a valid permutation, else reshuffle
GenLoop(p) ==
  /\ req[p].pc = "gen_loop"
  /\ req[p].attempts < MaxAttempts
  /\ UNCHANGED <<users, assigns, flags, conn, idle, nreq, hist>>
  /\ IF Valid(req[p].givers, req[p].receivers)
     THEN req' = [req EXCEPT ![p].pc = "gen_delete"]
     ELSE \E r \in FisherYates(req[p].receivers, Len(req[p].receivers)) :
            req' = [req EXCEPT ![p].receivers = r, ![p].attempts = @ + 1]

\* the while condition fails: the loop ends without another check
GenLoopEnd(p) ==
  /\ req[p].pc = "gen_loop"
  /\ ~(req[p].attempts < MaxAttempts)
  /\ req' = [req EXCEPT ![p].pc = "gen_delete"]
  /\ UNCHANGED <<users, assigns, flags, conn, idle, nreq, hist>>

\* every permutation the while loop can end with when it is entered with one
\* of the permutations R after the given number of reshuffles: a permutation
\* that passes the check leaves the loop; one that fails is reshuffled while
\* attempts < 100, and is kept once the condition fails.  (When a turn leads
\* from R to R again, every later turn does, up to the turn the bound ends.)
RECURSIVE LoopOutcomes(_, _, _)
LoopOutcomes(givers, R, attempts) ==
  IF ~(attempts < MaxAttempts) THEN R
  ELSE LET good == {r \in R : Valid(givers, r)}
           again == UNION {FisherYates(r, Len(r)) : r \in R \ good}
       IN IF again = {} THEN good
          ELSE IF again = R THEN R
          ELSE good \cup LoopOutcomes(givers, again, attempts + 1)

\* the whole while loop as Node runs it: in one turn, without an await
GenRetry(p) ==
  /\ req[p].pc = "gen_loop"
  /\ \E r \in LoopOutcomes(req[p].givers, {req[p].receivers}, req[p].attempts) :
       req' = [req EXCEPT ![p].pc = "gen_delete", ![p].receivers = r]
  /\ UNCHANGED <<users, assigns, flags, conn, idle, nreq, hist>>

\* DELETE FROM assignments WHERE family_code = $1 (attempts is not read again:
\* from here on the model keeps of it only whether the bound was reached)
GenDelete(p) ==
  /\ req[p].pc = "gen_delete"
  /\ LET c == req[p].conn
     IN TxDelete(p, ScopeAssignRows(ViewAssigns(c), req[p].scope), ViewAssigns(c),
                 LockedAssigns(c), "assignments",
                 [req[p] EXCEPT !.pc = "gen_insert", !.i = 1,
                               !.attempts = IF @ = MaxAttempts THEN @ ELSE 0])

\* an insert loop that writes the first receiver in every row
InsertRowFirstReceiver(r) == AssignRow(r.givers[r.i], r.receivers[1], r.scope, r.id)

\* the row one turn of the insert loop writes
InsertRow(r) == AssignRow(r.givers[r.i], r.receivers[r.i], r.scope, r.id)

\* INSERT INTO assignments (giver, receiver, family_code); assignments.giver is UNIQUE
GenInsert(p) ==
  /\ req[p].pc = "gen_insert"
  /\ req[p].i <= Len(req[p].givers)
  /\ ~InsertBlocked(req[p].conn, InsertRow(req[p]).giver)
  /\ LET c == req[p].conn
         row == InsertRow(req[p])
     IN \E ok \in BOOLEAN :
          Stmt(p, ok /\ ~\E a \in ViewAssigns(c) : a.giver = row.giver,
               OvInsertAssign(c, row),
               [req[p] EXCEPT !.i = @ + 1,
                              !.pc = IF req[p].i < Len(req[p].givers) THEN "gen_insert" ELSE "gen_upsert"])

\* INSERT INTO settings ... ON CONFLICT (key, family_code) DO UPDATE SET value = 'true'
GenUpsert(p) ==
  /\ req[p].pc = "gen_upsert"
  /\ req[p].scope \notin LockedFlags(req[p].conn)
  /\ \E ok \in BOOLEAN :
       Stmt(p, ok, OvInsertFlag(req[p].conn, req[p].scope), [req[p] EXCEPT !.pc = "gen_commit"])

GenCommit(p) ==
  /\ req[p].pc = "gen_commit"
  /\ \E ok \in BOOLEAN :
       TxCommit(p, ok, "Assignments generated successfully",
                [hist EXCEPT !.gen = @ \cup {req[p].scope}, !.fresh = @ \cup {req[p].scope},
                             !.reset = @ \ {req[p].scope}])

\* ---- GET /api/assignments/:username and GET /api/assignments/status

\* the handlers registered for GET /api/assignments/<segment>, in the order of
\* the app.get calls; Express runs the first whose path matches
GetRoutes == <<"lookup", "status">>
Matches(route, seg) == route = "lookup" \/ seg = StatusSeg
Dispatch(seg) == GetRoutes[CHOOSE k \in 1..Len(GetRoutes) :
                    /\ Matches(GetRoutes[k], seg)
                    /\ \A m \in 1..(k - 1) : ~Matches(GetRoutes[m], seg)]

StartGet(p, seg, scope) ==
  Begin(p, Dispatch(seg), IF Dispatch(seg) = "lookup" THEN "read_flag" ELSE "read_status", scope, seg)

\* SELECT value FROM settings WHERE key = 'assignments_generated' AND family_code = $1
\* (mid keeps the committed tables this SELECT ran against: history)
LookupFlag(p) ==
  /\ req[p].pc = "read_flag"
  /\ CanAcquire
  /\ \E ok \in BOOLEAN :
       LET r == [req[p] EXCEPT !.mid = [users |-> users, assigns |-> assigns, flags |-> flags]]
       IN PoolQuery(p, ok, FALSE, conn[PoolConn].ov,
                    IF r.scope \notin ViewFlags(PoolConn)
                    THEN Respond(r, 400, "Assignments not generated yet")
                    ELSE [r EXCEPT !.pc = "read_row"],
                    r, ServerError(r))
  /\ UNCHANGED hist

\* what the handler answers from the rows of the second SELECT
LookupAnswer(r, rows) ==
  IF rows = {} THEN {Respond(r, 404, "No assignment found")}
  ELSE {Respond(r, 200, a.receiver) : a \in rows}

\* SELECT receiver FROM assignments WHERE giver = $1 AND family_code = $2
LookupRow(p) ==
  /\ req[p].pc = "read_row"
  /\ CanAcquire
  /\ LET r == req[p]
     IN \E ok \in BOOLEAN, ans \in LookupAnswer(r, LookupRows(ViewAssigns(PoolConn), r.name, r.scope)) :
          PoolQuery(p, ok, FALSE, conn[PoolConn].ov, ans, r, ServerError(r))
  /\ UNCHANGED hist

\* the handler of app.get('/api/assignments/status'): res.json({ generated })
StatusBody(generated) == IF generated THEN "generated: true" ELSE "generated: false"

\* the body of that handler.  No request reaches it (Dispatch yields "lookup" for
\* every segment, "status" included), so it is no step of Next.
StatusRead(p) ==
  /\ req[p].pc = "read_status"
  /\ CanAcquire
  /\ \E ok \in BOOLEAN :
       LET r == req[p]
       IN PoolQuery(p, ok, FALSE, conn[PoolConn].ov,
                    Respond(r, 200, StatusBody(r.scope \in ViewFlags(PoolConn))),
                    r, ServerError(r))
  /\ UNCHANGED hist

\* ---- POST /api/reset
StartReset(p, scope) == Begin(p, "reset", "reset_connect", scope, NoName)

ResetConnect(p) ==
  /\ req[p].pc = "reset_connect"
  /\ Connect(p, "reset_begin")

ResetBegin(p) ==
  /\ req[p].pc = "reset_begin"
  /\ \E ok \in BOOLEAN : TxBegin(p, ok, "reset_assign")

ResetDelAssign(p) ==
  /\ req[p].pc = "reset_assign"
  /\ LET c == req[p].conn
     IN TxDelete(p, ScopeAssignRows(ViewAssigns(c), req[p].scope), ViewAssigns(c),
                 LockedAssigns(c), "assignments", [req[p] EXCEPT !.pc = "reset_users"])

ResetDelUsers(p) ==
  /\ req[p].pc = "reset_users"
  /\ LET c == req[p].conn
     IN TxDelete(p, ScopeUserRows(ViewUsers(c), req[p].scope), ViewUsers(c),
                 LockedUsers(c), "users", [req[p] EXCEPT !.pc = "reset_settings"])

ResetDelSettings(p) ==
  /\ req[p].pc = "reset_settings"
  /\ LET c == req[p].conn
     IN TxDelete(p, {req[p].scope} \cap ViewFlags(c), ViewFlags(c),
                 LockedFlags(c), "settings", [req[p] EXCEPT !.pc = "reset_commit"])

ResetCommit(p) ==
  /\ req[p].pc = "reset_commit"
  /\ \E ok \in BOOLEAN :
       TxCommit(p, ok, "Family data reset",
                [hist EXCEPT !.gen = @ \ {req[p].scope}, !.fresh = @ \ {req[p].scope},
                             !.reset = IF req[p].scope \in hist.gen THEN @ \cup {req[p].scope} ELSE @])

\* ------------------------------------------------------------------ specifications

\* the steps of the requests in flight
Step(p) ==
  \/ AddInsert(p)
  \/ DelAssign(p)
  \/ DelUser(p)
  \/ GenConnect(p)
  \/ GenBegin(p)
  \/ GenSelect(p)
  \/ GenLoop(p)
  \/ GenLoopEnd(p)
  \/ GenDelete(p)
  \/ GenInsert(p)
  \/ GenUpsert(p)
  \/ GenCommit(p)
  \/ LookupFlag(p)
  \/ LookupRow(p)
  \/ ResetConnect(p)
  \/ ResetBegin(p)
  \/ ResetDelAssign(p)
  \/ ResetDelUsers(p)
  \/ ResetDelSettings(p)
  \/ ResetCommit(p)
  \/ TxRollback(p)
  \/ TxRelease(p)
  \/ Finish(p)

\* requests served one after the other
Next ==
  \/ \E p \in SeqProcs, n \in Names, s \in Scopes \cup {Missing} : StartAddUser(p, n, s)
  \/ \E p \in SeqProcs, n \in Names, s \in Scopes \cup {Missing} : StartDeleteUser(p, n, s)
  \/ \E p \in SeqProcs, s \in Scopes \cup {Missing} : StartGenerate(p, s)
  \/ \E p \in SeqProcs, n \in Names \cup {StatusSeg}, s \in Scopes \cup {Missing} : StartGet(p, n, s)
  \/ \E p \in SeqProcs, s \in Scopes \cup {Missing} : StartReset(p, s)
  \/ \E p \in SeqProcs : Step(p)
  \/ \E c \in Conns : IdleTimeout(c)

Spec == Init /\ [][Next]_vars

\* the generator on its own: one generate request on a family of 1 .. MaxFamily
FamilyUsers(k) == {UserRow(NameSeq[i], ScopeSeq[1]) : i \in 1..k}

InitGen ==
  /\ users \in {FamilyUsers(k) : k \in 1..MaxFamily}
  /\ InitRest

GenStep(p) ==
  \/ GenConnect(p)
  \/ GenBegin(p)
  \/ GenSelect(p)
  \/ GenLoop(p)
  \/ GenLoopEnd(p)
  \/ GenDelete(p)
  \/ GenInsert(p)
  \/ GenUpsert(p)
  \/ GenCommit(p)
  \/ TxRollback(p)
  \/ TxRelease(p)
  \/ Finish(p)

NextGen ==
  \/ \E p \in SeqProcs, s \in Scopes \cup {Missing} : nreq = 0 /\ StartGenerate(p, s)
  \/ \E p \in SeqProcs : GenStep(p)
  \/ \E c \in Conns : IdleTimeout(c)

SpecGen == InitGen /\ [][NextGen]_vars

\* the generator alone, for the question whether its loop ends: families of
\* up to MaxLoopFamily, and Node running the synchronous while loop to its end
\* once it has entered it
InitGenFair ==
  /\ users \in {FamilyUsers(k) : k \in 1..MaxLoopFamily}
  /\ InitRest

SpecGenFair ==
  /\ InitGenFair
  /\ [][NextGen]_vars
  /\ \A p \in SeqProcs : WF_vars(GenLoop(p) \/ GenLoopEnd(p))

\* requests served concurrently: generate, lookup and reset on two handlers.
\* Handler p can take a turn when no other handler is in the synchronous code
\* between the SELECT and the DELETE of generate.
JsTurn(p) == \A q \in Procs \ {p} : req[q].pc # "gen_loop"

\* handlers are anonymous: a request that arrives is served by the first one
\* that is not serving another
FreeHandler(p) == \A q \in Procs : q < p => req[q].pc # "idle"

ParStep(p) ==
  \/ GenConnect(p)
  \/ GenBegin(p)
  \/ GenSelect(p)
  \/ GenRetry(p)
  \/ GenDelete(p)
  \/ GenInsert(p)
  \/ GenUpsert(p)
  \/ GenCommit(p)
  \/ LookupFlag(p)
  \/ LookupRow(p)
  \/ ResetConnect(p)
  \/ ResetBegin(p)
  \/ ResetDelAssign(p)
  \/ ResetDelUsers(p)
  \/ ResetDelSettings(p)
  \/ ResetCommit(p)
  \/ TxRollback(p)
  \/ TxRelease(p)
  \/ Finish(p)

NextPar ==
  \/ \E p \in Procs, s \in Scopes : JsTurn(p) /\ FreeHandler(p) /\ StartGenerate(p, s)
  \/ \E p \in Procs, n \in Names, s \in Scopes : JsTurn(p) /\ FreeHandler(p) /\ StartGet(p, n, s)
  \/ \E p \in Procs, s \in Scopes : JsTurn(p) /\ FreeHandler(p) /\ StartReset(p, s)
  \/ \E p \in Procs : JsTurn(p) /\ ParStep(p)
  \/ \E c \in Conns : IdleTimeout(c)

\* the rows a generation (request 1) committed for the first family
GeneratedRows(u, r) == {AssignRow(u[i], r[i], ScopeSeq[1], 1) : i \in 1..Len(u)}

\* the concurrent requests start after one request has been served: one that
\* changed nothing, or a generation that committed a derangement for the
\* first family (the one that gives every name the next one)
InitPar ==
  /\ users \in {InitUsers(k) : k \in {2, Cardinality(Names)}}
  /\ conn = [c \in Conns |-> [st |-> IF c = 1 THEN "idle" ELSE "closed", txn |-> "none", ov |-> EmptyOv]]
  /\ idle = <<1>>
  /\ req = [p \in Procs |-> IdleReq]
  /\ nreq = 1
  /\ LET u == SortByName({x.name : x \in ScopeUserRows(users, ScopeSeq[1])})
     IN \/ /\ assigns = {}
           /\ flags = {}
           /\ hist = [gen |-> {}, fresh |-> {}, reset |-> {}]
        \/ \E r \in {[i \in 1..Len(u) |-> u[(i % Len(u)) + 1]]} :
             /\ Valid(u, r)
             /\ assigns = GeneratedRows(u, r)
             /\ flags = {ScopeSeq[1]}
             /\ hist = [gen |-> {ScopeSeq[1]}, fresh |-> {ScopeSeq[1]}, reset |-> {}]

SpecPar == InitPar /\ [][NextPar]_vars

\* generate requests alone, served concurrently
ParGenStep(p) ==
  \/ GenConnect(p)
  \/ GenBegin(p)
  \/ GenSelect(p)
  \/ GenRetry(p)
  \/ GenDelete(p)
  \/ GenInsert(p)
  \/ GenUpsert(p)
  \/ GenCommit(p)
  \/ TxRollback(p)
  \/ TxRelease(p)
  \/ Finish(p)

NextParGen ==
  \/ \E p \in Procs, s \in Scopes : JsTurn(p) /\ FreeHandler(p) /\ StartGenerate(p, s)
  \/ \E p \in Procs : JsTurn(p) /\ ParGenStep(p)
  \/ \E c \in Conns : IdleTimeout(c)

SpecParGen == InitPar /\ [][NextParGen]_vars

\* the requests that change participants or rows, served concurrently
ParUsersStep(p) ==
  \/ AddInsert(p)
  \/ DelAssign(p)
  \/ DelUser(p)
  \/ GenConnect(p)
  \/ GenBegin(p)
  \/ GenSelect(p)
  \/ GenRetry(p)
  \/ GenDelete(p)
  \/ GenInsert(p)
  \/ GenUpsert(p)
  \/ GenCommit(p)
  \/ ResetConnect(p)
  \/ ResetBegin(p)
  \/ ResetDelAssign(p)
  \/ ResetDelUsers(p)
  \/ ResetDelSettings(p)
  \/ ResetCommit(p)
  \/ TxRollback(p)
  \/ TxRelease(p)
  \/ Finish(p)

NextParUsers ==
  \/ \E p \in Procs, n \in Names, s \in Scopes : JsTurn(p) /\ FreeHandler(p) /\ StartAddUser(p, n, s)
  \/ \E p \in Procs, n \in Names, s \in Scopes : JsTurn(p) /\ FreeHandler(p) /\ StartDeleteUser(p, n, s)
  \/ \E p \in Procs, s \in Scopes : JsTurn(p) /\ FreeHandler(p) /\ StartGenerate(p, s)
  \/ \E p \in Procs, s \in Scopes : JsTurn(p) /\ FreeHandler(p) /\ StartReset(p, s)
  \/ \E p \in Procs : JsTurn(p) /\ ParUsersStep(p)
  \/ \E c \in Conns : IdleTimeout(c)

SpecParUsers == InitPar /\ [][NextParUsers]_vars

\* ------------------------------------------------------------------ claims

\* handler p has just committed a generation; its givers and receivers are still at hand
Committed(p) == req[p].kind = "generate" /\ req[p].pc = "release" /\ req[p].code = 200

\* the committed assignment rows of a family
RowsOf(s) == {a \in assigns : a.scope = s}

\* C1 (as claimed): no committed assignment row has its giver as its receiver.
C1_NoFixedPoint == \A a \in assigns : a.giver # a.receiver

\* C2: the rows a generation commits are a bijection on the participants it read:
\* exactly n rows, every participant once as giver and once as receiver, also
\* when the retry bound was exhausted.
C2_Bijection ==
  \A p \in Procs : Committed(p) =>
    LET g == req[p].givers
        P == {g[i] : i \in 1..Len(g)}
        rows == RowsOf(req[p].scope)
    IN /\ Cardinality(P) = Len(g)
       /\ Cardinality(rows) = Len(g)
       /\ \A a \in rows : a.giver \in P /\ a.receiver \in P
       /\ \A x \in P : /\ Cardinality({a \in rows : a.giver = x}) = 1
                       /\ Cardinality({a \in rows : a.receiver = x}) = 1

\* a generation of three or more participants committed after every check failed
C2_Witness ==
  \E p \in Procs : /\ Committed(p)
                   /\ Len(req[p].givers) >= 3
                   /\ \E i \in 1..Len(req[p].givers) : req[p].givers[i] = req[p].receivers[i]

\* C3 (as claimed): a generation over exactly two participants commits the swap.
C3_TwoIsSwap ==
  \A p \in Procs : (Committed(p) /\ Len(req[p].givers) = 2) =>
    {<<a.giver, a.receiver>> : a \in RowsOf(req[p].scope)}
      = {<<req[p].givers[1], req[p].givers[2]>>, <<req[p].givers[2], req[p].givers[1]>>}

\* the request handler p serves is a generation that ended in the catch block
GenFailed(p) == req[p].kind = "generate" /\ req[p].err # "none"

\* the rows the generation of handler p chose: givers[i] -> receivers[i]
ChosenRows(p) ==
  {AssignRow(req[p].givers[i], req[p].receivers[i], req[p].scope, req[p].id) : i \in 1..Len(req[p].givers)}

\* C4: a successful generation replaces the family's rows.  When it commits,
\* the family holds exactly the n rows this run wrote (none of an earlier run),
\* the row selected for each participant carries the receiver this run chose,
\* and a lookup that follows returns that receiver.
C4_Replaces ==
  \A p \in Procs :
    /\ Committed(p) =>
         /\ RowsOf(req[p].scope) = ChosenRows(p)
         /\ Cardinality(RowsOf(req[p].scope)) = Len(req[p].givers)
         /\ \A a \in RowsOf(req[p].scope) : a.run = req[p].id
         /\ req[p].scope \in flags
         /\ \A i \in 1..Len(req[p].givers) :
              {a.receiver : a \in {b \in assigns : b.giver = req[p].givers[i] /\ b.scope = req[p].scope}}
                = {req[p].receivers[i]}
    /\ (/\ req[p].kind = "lookup" /\ req[p].pc = "done" /\ req[p].code # 500
        /\ \E a \in req[p].pre.assigns :
              a.scope = req[p].scope /\ a.giver = req[p].name /\ a.run = req[p].id - 1)
       => /\ req[p].code = 200
          /\ \E a \in req[p].pre.assigns :
                /\ a.scope = req[p].scope /\ a.giver = req[p].name /\ a.run = req[p].id - 1
                /\ a.receiver = req[p].body

\* a second generation in a row commits over the rows of the first and changes a receiver
C4_Witness ==
  \E p \in Procs :
    /\ Committed(p)
    /\ LET old == {a \in req[p].pre.assigns : a.scope = req[p].scope}
       IN /\ Cardinality(old) = Len(req[p].givers)
          /\ \A a \in old : a.run = req[p].id - 1
          /\ \E a \in old, b \in RowsOf(req[p].scope) : a.giver = b.giver /\ a.receiver # b.receiver

LookupDone(p) == req[p].kind = "lookup" /\ req[p].pc = "done" /\ req[p].scope # Missing

\* the tables as the store showed them to the application when the request of p arrived
FlagBefore(p) == req[p].scope \in req[p].preV.flags
RowsBefore(p) == {a \in req[p].preV.assigns : a.giver = req[p].name /\ a.scope = req[p].scope}

\* the committed tables, and the tables the store shows, are as the request of p found them
CommittedUnchanged(p) ==
  users = req[p].pre.users /\ assigns = req[p].pre.assigns /\ flags = req[p].pre.flags
SeenUnchanged(p) ==
  SeenUsers = req[p].preV.users /\ SeenAssigns = req[p].preV.assigns /\ SeenFlags = req[p].preV.flags

\* C6: unless the store fails (500), a lookup answers the receiver of the row
\* with giver p exactly when the family's flag is set and such a row exists,
\* 400 (not ready) exactly when the flag is not set, 404 (not found) exactly
\* when the flag is set and there is no such row; and it changes no table.
C6_Lookup ==
  \A p \in Procs : LookupDone(p) =>
    /\ req[p].code \in {200, 400, 404, 500}
    /\ req[p].code = 200 => FlagBefore(p) /\ \E a \in RowsBefore(p) : a.receiver = req[p].body
    /\ req[p].code = 400 => ~FlagBefore(p)
    /\ req[p].code = 404 => FlagBefore(p) /\ RowsBefore(p) = {}
    /\ req[p].code # 500 =>
         /\ (FlagBefore(p) /\ RowsBefore(p) # {}) => req[p].code = 200
         /\ ~FlagBefore(p) => req[p].code = 400
         /\ SeenUnchanged(p)
    /\ CommittedUnchanged(p)

\* a lookup returned a receiver other than the caller
C6_Witness ==
  \E p \in Procs : LookupDone(p) /\ req[p].code = 200 /\ req[p].body # req[p].name

\* C7: unless the store fails, a lookup answers 400 (not ready) in a family
\* never generated, succeeds for every participant of a family generated and
\* not changed or reset since, and answers 400 again after a reset.
C7_Lifecycle ==
  \A p \in Procs : (LookupDone(p) /\ req[p].code # 500) =>
    /\ (req[p].scope \notin hist.gen /\ req[p].scope \notin hist.reset) => req[p].code = 400
    /\ (/\ req[p].scope \in hist.fresh
        /\ UserRow(req[p].name, req[p].scope) \in req[p].preV.users) => req[p].code = 200
    /\ req[p].scope \in hist.reset => req[p].code = 400

\* a lookup answered not ready in a family that was generated and then reset
C7_Witness ==
  \E p \in Procs : LookupDone(p) /\ req[p].code = 400 /\ req[p].scope \in hist.reset

\* nothing of family s is in the given tables
EmptyIn(t, s) ==
  /\ \A u \in t.users : u.scope # s
  /\ \A a \in t.assigns : a.scope # s
  /\ s \notin t.flags

\* C8: a reset that the store does not fail answers 200 and leaves the family
\* with no assignment row, no participant and no flag; nothing is committed
\* before its COMMIT, which removes all three at once; this holds as well when
\* the family was empty already.
C8_Reset ==
  \A p \in Procs : (req[p].kind = "reset" /\ req[p].scope # Missing) =>
    /\ req[p].pc \in {"reset_connect", "reset_begin", "reset_assign", "reset_users",
                      "reset_settings", "reset_commit", "rollback"} => CommittedUnchanged(p)
    /\ (req[p].pc \in {"release", "done"} /\ req[p].err = "none") =>
         /\ req[p].code = 200
         /\ EmptyIn([users |-> users, assigns |-> assigns, flags |-> flags], req[p].scope)
    /\ (req[p].pc \in {"release", "done"} /\ req[p].err # "none") =>
         /\ req[p].code = 500
         /\ CommittedUnchanged(p)

\* a family that was generated and reset is reset once more, with success
C8_Witness ==
  \E p \in Procs :
    /\ req[p].kind = "reset" /\ req[p].pc = "done" /\ req[p].code = 200
    /\ req[p].scope \in hist.reset
    /\ EmptyIn(req[p].pre, req[p].scope)

\* handler p has answered a DELETE /api/users/<name> with success
DeleteDone(p) == req[p].kind = "delete" /\ req[p].pc = "done" /\ req[p].code = 200

\* the rows of t that mention participant n of family s on either side
Mentions(t, n, s) == {a \in t : a.scope = s /\ (a.giver = n \/ a.receiver = n)}

C10_StatusRoute ==
  \A p \in Procs :
    (/\ req[p].name = StatusSeg /\ req[p].pc = "done"
     /\ req[p].scope # Missing /\ req[p].code # 500) =>
      /\ req[p].code = 200
      /\ req[p].body = StatusBody(req[p].scope \in req[p].preV.flags)

\* handler p has answered a generate request that no store error interrupted
GenerateDone(p) == req[p].kind = "generate" /\ req[p].pc = "done" /\ req[p].err = "none"

\* the participants of the family of p's request, as the store showed them when it arrived
ParticipantsBefore(p) == {u \in req[p].preV.users : u.scope = req[p].scope}

\* C11: a generate for a family with fewer than two participants answers 400
\* "Need at least 2 users" and changes nothing: users, assignment rows and
\* flags, committed and as the store shows them, are as the request found them.
C11_TooFew ==
  \A p \in Procs :
    (GenerateDone(p) /\ req[p].scope # Missing /\ Cardinality(ParticipantsBefore(p)) < 2) =>
      /\ req[p].code = 400
      /\ req[p].body = "Need at least 2 users"
      /\ CommittedUnchanged(p)
      /\ SeenUnchanged(p)

\* a family that was generated and then shrank below two is asked to generate again
C11_Witness ==
  \E p \in Procs :
    /\ GenerateDone(p) /\ req[p].code = 400
    /\ Cardinality(ParticipantsBefore(p)) = 1
    /\ req[p].scope \in req[p].pre.flags

\* the step in which the generation of handler p commits
CommitsNow(p) ==
  /\ req[p].kind = "generate" /\ req[p].pc = "gen_commit"
  /\ req'[p].pc = "release" /\ req'[p].code = 200

\* every committed row of a family is of one generation run, one row a giver
OneRun == \A a, b \in assigns : a.scope = b.scope => a.run = b.run /\ (a.giver = b.giver => a = b)

\* the committed rows change only when a generation commits, and the family
\* then holds exactly the rows that generation chose, the other families theirs
SerialStep ==
  assigns' # assigns =>
    \E p \in Procs :
      /\ CommitsNow(p)
      /\ {a \in assigns' : a.scope = req[p].scope} = ChosenRows(p)
      /\ {a \in assigns' : a.scope # req[p].scope} = {a \in assigns : a.scope # req[p].scope}

\* C12: generate requests served concurrently do not interleave their effects.
\* In every committed state the rows of a family are of one generation run with
\* one row a giver, and each change of the committed rows is the commit of one
\* generation, which leaves the family with exactly the rows it chose.
C12_Serial == []OneRun /\ [][SerialStep]_vars

\* two generations of one family overlap: the one that arrived later has
\* committed over the rows of an earlier run while the other, which arrived
\* first, has failed on its INSERT
C12_Witness ==
  \E p, q \in Procs :
    /\ Committed(p) /\ req[q].kind = "generate" /\ req[q].scope = req[p].scope
    /\ req[q].id < req[p].id
    /\ req[q].pc = "rollback" /\ req[q].err = "gen_insert"
    /\ RowsOf(req[p].scope) = ChosenRows(p)
    /\ \E a \in req[p].pre.assigns : a.scope = req[p].scope /\ a.run < req[q].id

\* C13 (as claimed): the flag and the row a lookup reads are of one committed
\* state: a lookup that read the flag as set does not answer 404 for a
\* participant who had a row in the committed state the flag was read from.
C13_OneState ==
  \A p \in Procs : (LookupDone(p) /\ req[p].code = 404) =>
    {a \in req[p].mid.assigns : a.giver = req[p].name /\ a.scope = req[p].scope} = {}

\* handler p has answered a POST /api/users that carried a family code
AddDone(p) == req[p].kind = "add" /\ req[p].pc = "done" /\ req[p].scope # Missing

\* C14: unless the store fails otherwise (500), adding a participant whose
\* name the store already holds answers 400 "User already exists", and the
\* committed users, assignment rows and flags are as the request found them
\* (and so is what the store shows, when it showed the committed tables before).
C14_Duplicate ==
  \A p \in Procs :
    (AddDone(p) /\ \E u \in req[p].preV.users : u.name = req[p].name) =>
      /\ req[p].code \in {400, 500}
      /\ req[p].code = 400 => req[p].body = "User already exists"
      /\ CommittedUnchanged(p)
      /\ req[p].preV = req[p].pre => SeenUnchanged(p)

\* a participant of a generated family is added a second time
C14_Witness ==
  \E p \in Procs :
    /\ AddDone(p) /\ req[p].code = 400
    /\ UserRow(req[p].name, req[p].scope) \in req[p].pre.users
    /\ req[p].scope \in req[p].pre.flags

\* no request is being served
Quiescent == \A p \in Procs : req[p].pc = "idle"

\* the committed participants of family s
ParticipantsOf(s) == {u.name : u \in {x \in users : x.scope = s}}

\* C15 (as claimed): between requests, a family whose flag is set has
\* assignment rows that are a derangement of its current participants: every
\* participant is the giver of one row and the receiver of one row, no row
\* names anyone else, and no row has its giver as its receiver.
C15_FlagMeansValid ==
  Quiescent =>
    \A s \in flags :
      /\ {a.giver : a \in RowsOf(s)} = ParticipantsOf(s)
      /\ {a.receiver : a \in RowsOf(s)} = ParticipantsOf(s)
      /\ Cardinality(RowsOf(s)) = Cardinality(ParticipantsOf(s))
      /\ \A a \in RowsOf(s) : a.giver # a.receiver

\* the step in which the reset of handler p commits
ResetCommitsNow(p) ==
  /\ req[p].kind = "reset" /\ req[p].pc = "reset_commit"
  /\ req'[p].pc = "release" /\ req'[p].code = 200

\* the committed flags are those of the families for which a generate has
\* committed since the last commit of a reset
FlagFollowsHistory == flags = hist.gen

\* the committed flags change only in the COMMIT of a generate, which sets the
\* flag of its family, and in the COMMIT of a reset, which removes it
FlagStep ==
  flags' # flags =>
    \E p \in Procs :
      \/ CommitsNow(p) /\ flags' = flags \cup {req[p].scope}
      \/ ResetCommitsNow(p) /\ flags' = flags \ {req[p].scope}

\* C16: in every reachable state a family's committed flag is set exactly when
\* a generate has committed for it since its last reset, and the committed
\* flags change only at the commit of a generate and of a reset (so add,
\* delete, lookup and failed or rejected generate requests leave them alone).
C16_FlagChanges == []FlagFollowsHistory /\ [][FlagStep]_vars

\* some position of handler p's permutation has givers[i] = receivers[i]
HasFixedPoint(p) == \E i \in 1..Len(req[p].givers) : req[p].givers[i] = req[p].receivers[i]

\* the reshuffle counter stays within the bound; a permutation the loop hands
\* on after fewer than 100 reshuffles has no fixed point; committed rows with
\* a fixed point are of a run that used all 100 reshuffles
LoopBound ==
  \A p \in Procs :
    /\ req[p].attempts \in 0..MaxAttempts
    /\ (req[p].pc = "gen_delete" /\ req[p].attempts < MaxAttempts) => ~HasFixedPoint(p)
    /\ (Committed(p) /\ \E a \in RowsOf(req[p].scope) : a.giver = a.receiver) =>
         req[p].attempts = MaxAttempts

\* the loop is left with the permutation it last drew, and each turn that
\* stays in it counts one reshuffle
LoopStep ==
  \A p \in Procs :
    req[p].pc = "gen_loop" =>
      /\ req'[p].pc = "gen_delete" => req'[p].receivers = req[p].receivers
                                     /\ req'[p].attempts = req[p].attempts
      /\ (req'[p].pc = "gen_loop" /\ req'[p] # req[p]) => req'[p].attempts = req[p].attempts + 1

\* C17: the shuffle-retry loop ends, after at most 100 reshuffles; when it ends
\* after fewer the permutation handed on, which is the one committed, has
\* passed the check, and rows with a fixed point are committed only after all
\* 100 reshuffles were used.
C17_Loop ==
  /\ []LoopBound
  /\ [][LoopStep]_vars
  /\ \A p \in SeqProcs : (req[p].pc = "gen_loop") ~> (req[p].pc = "gen_delete")

\* the loop has stopped on a checked permutation of three or more after 99 reshuffles
C17_Witness ==
  \E p \in Procs :
    /\ req[p].pc = "gen_delete" /\ req[p].attempts = MaxAttempts - 1
    /\ Len(req[p].givers) >= 3
    /\ ~HasFixedPoint(p)

\* handler p serves a generate or a reset that carried a family code
UsesClient(p) == req[p].kind \in {"generate", "reset"} /\ req[p].scope # Missing

\* the handlers that hold client c
Holders(c) == {p \in Procs : req[p].conn = c}

\* the pool's books: a client is checked out exactly while one handler of
\* generate or reset holds it between pool.connect() and the end of finally;
\* the idle list holds each idle client once; a handler that has finished
\* holds none
PoolBooks ==
  /\ \A c \in Conns :
       /\ conn[c].st = "busy" <=> Holders(c) # {}
       /\ Cardinality(Holders(c)) <= 1
       /\ conn[c].st = "idle" <=> \E i \in 1..Len(idle) : idle[i] = c
       /\ \A i, j \in 1..Len(idle) : idle[i] = idle[j] => i = j
  /\ \A p \in Procs :
       /\ req[p].conn # 0 => UsesClient(p) /\ req[p].pc \notin {"idle", "done"}
       /\ (UsesClient(p) /\ req[p].pc = "done") =>
            /\ req[p].code \in {200, 400, 500}
            /\ req[p].code = 400 => req[p].body = "Need at least 2 users"

\* a handler gives up its client only in the release that ends the request,
\* which hands that client to the idle list; a generate or reset is finished
\* only by that release
ReleaseStep ==
  \A p \in Procs :
    /\ (req[p].conn # 0 /\ req'[p].conn # req[p].conn) =>
         /\ req'[p].conn = 0 /\ req'[p].pc = "done"
         /\ idle' = Append(idle, req[p].conn)
         /\ conn'[req[p].conn].st = "idle"
    /\ (UsesClient(p) /\ req[p].pc # "done" /\ req'[p].pc = "done") => req[p].conn # 0

\* C18: generate and reset release the client they acquired exactly once on
\* every exit path (200 after COMMIT, 400 for fewer than two participants, 500
\* after a store failure and ROLLBACK): the request ends only in the release
\* of its client, and no client stays checked out or is listed idle twice.
C18_ReleasedOnce == []PoolBooks /\ [][ReleaseStep]_vars

\* a generation that failed on an INSERT and rolled back has released its client
C18_Witness ==
  \E p \in Procs :
    /\ req[p].kind = "generate" /\ req[p].pc = "done" /\ req[p].code = 500
    /\ req[p].err = "gen_insert"
    /\ req[p].conn = 0
    /\ idle # <<>>
    /\ \A c \in Conns : conn[c].st # "busy"

\* what the tables t hold of family s
ScopePart(t, s) ==
  [users |-> {u \in t.users : u.scope = s},
   assigns |-> {a \in t.assigns : a.scope = s},
   flags |-> t.flags \cap {s}]

\* the committed tables
CommittedTables == [users |-> users, assigns |-> assigns, flags |-> flags]

\* C19 (as claimed): a generate, reset, delete-participant or lookup served
\* for one family leaves every other family's committed participants,
\* assignment rows and flag as the request found them.
C19_Isolated ==
  \A p \in Procs :
    (req[p].kind \in {"generate", "reset", "delete", "lookup"} /\ req[p].pc = "done") =>
      \A s \in Scopes \ {req[p].scope} :
        ScopePart(CommittedTables, s) = ScopePart(req[p].pre, s)

\* C20 (as claimed): a transaction that generate or reset has begun is ended
\* by COMMIT or ROLLBACK before its client is released: a handler about to
\* release holds a client with no transaction, and no idle client of the pool
\* carries one for a later request to run in.
C20_TxnEnded ==
  /\ \A p \in Procs : req[p].pc = "release" => conn[req[p].conn].txn = "none"
  /\ \A c \in Conns : conn[c].st = "idle" => conn[c].txn = "none"

\* C21 (as claimed): between requests, the giver and the receiver of every
\* committed assignment row are committed participants of the row's family,
\* whatever the interleaving of add, delete, generate and reset that led there.
C21_RowsNameParticipants ==
  Quiescent =>
    \A a \in assigns : /\ UserRow(a.giver, a.scope) \in users
                        /\ UserRow(a.receiver, a.scope) \in users
=============================================================================
